---- MODULE Spec2Model ----
(***************************************************************************)
(* CompactVec (lib/compact/src/compact_vec.rs): a growable array whose     *)
(* backing storage is either compact (borrowed from an enclosing region)   *)
(* or free (obtained from Allocator and released by the holder).           *)
(*                                                                         *)
(* The model keeps one container (vec), the owning iterator it             *)
(* may be consumed into (iter), the source container of the last clone /   *)
(* compact_from (other), and the storage every pointer refers to (store).  *)
(* Destroying an element is recorded in `dropped`.                         *)
(*                                                                         *)
(* Spec is a CompactVec<u8>: its elements are plain values.  VecSpec is a  *)
(* CompactVec<CompactVec<u8>>: its elements are containers with storage of *)
(* their own, which the methods decompact, clone, compact and drop.        *)
(***************************************************************************)
EXTENDS Integers, Sequences, FiniteSets, TLC

\* ------------------------------------------------------------------ bounds
\* largest capacity a constructor is asked for / a growth may reach
MaxCap == 4
\* number of addresses storage can be at
MaxBlocks == 3

\* The element values.  The operations never inspect an element (only the
\* predicate given to retain does), so two values tell every order apart.
Values == {1, 2}
\* content of a slot that was never written
Uninit == 0
\* address of PointerToMaybeCompact::default()
Null == 0
\* bits of a usize in the model
UsizeBits == 16

VARIABLES
    pc,        \* life of the container: "none", "live", "iter", "dropped"
    vec,       \* CompactVec { ptr, len, cap }
    iter,      \* IntoIter { ptr, len, cap, index }
    other,     \* the source container left behind by clone / compact_from
    store,     \* the storage at each address
    faults,    \* what was wrong with the deallocate calls of the last operation
    lastOp,    \* the last operation and its arguments
    pre,       \* the container and its elements before the last operation
    ret,       \* what the last operation returned
    dropped,   \* the elements the last operation destroyed, in order
    allocs,    \* the calls Allocator::allocate(n) of the last operation: <<ptr, n>>
    deallocs,  \* the calls Allocator::deallocate(ptr, n) of the last operation
    copies,    \* the calls ptr::copy_nonoverlapping of the last operation:
               \* [at: byte offset in the destination, n: bytes copied]
    hist       \* what happened since construction (constructor, pushes, growths)

vars == <<pc, vec, iter, other, store, faults, lastOp, pre, ret, dropped, allocs,
          deallocs, copies, hist>>

\* ------------------------------------------------------- storage, Allocator
Addrs == 1..MaxBlocks

\* a block of n slots: kind "heap" is Allocator::allocate's, "vec" a Vec's
\* buffer, "region" the destination of compact_from
Block(kind, n, slots) == [kind |-> kind, n |-> n, slots |-> slots]

\* no storage at the address
NoBlock == Block("none", 0, <<>>)

Blank(n) == [i \in 1..n |-> Uninit]

HasFree(st) == \E a \in DOMAIN st : st[a] = NoBlock

\* the address of the next block: the lowest address without storage
NewAddr(st) ==
    CHOOSE a \in DOMAIN st : st[a] = NoBlock /\ \A b \in DOMAIN st : st[b] = NoBlock => a <= b

\* ptr::write(p.offset(i), x) on the block at address a (i counts from 0)
Write(st, a, i, x) == [st EXCEPT ![a].slots[i + 1] = x]

\* ptr::read(p.offset(i))
Read(st, a, i) == st[a].slots[i + 1]

\* The state an operation works on and what it produces.  T is the element
\* type of the container: "value" a plain value (u8), "vec" a CompactVec<u8>;
\* overflow_checks is the build's setting for integer arithmetic; elem is
\* the value the last call on an element produced, offset the byte offset
\* compact_from has reached in its destination.
World(v, st) ==
    [vec |-> v, store |-> st, faults |-> {}, allocs |-> <<>>, deallocs |-> <<>>,
     dropped |-> <<>>, ret |-> [kind |-> "unit", val |-> 0], copies |-> <<>>,
     T |-> "value", overflow_checks |-> TRUE, elem |-> Uninit, acc |-> <<>>,
     offset |-> 0]

\* the world of a method of an element of a CompactVec<CompactVec<u8>>
ElemWorld(w) == [w EXCEPT !.T = "value"]

\* back in the container's method, in the world e a method of an element
\* ended in: the container's fields, and the container the method made
Returned(w, e) == [e EXCEPT !.vec = w.vec, !.T = w.T, !.dropped = w.dropped, !.elem = e.vec]

\* ptr::write(p.offset(i), x), x the element the last call produced
WriteElem(w, a, i) == [w EXCEPT !.store = Write(w.store, a, i, w.elem)]

\* std::mem::size_of::<T>(), in bytes, on a 64-bit target
size_of(T) == IF T = "value" THEN 1 ELSE 32

\* Allocator::allocate::<T>(n): n uninitialised slots at NewAddr(w.store)
allocate(w, n) ==
    [w EXCEPT !.store[NewAddr(w.store)] = Block("heap", n, Blank(n)),
              !.allocs = Append(@, <<NewAddr(w.store), n>>)]

\* what is wrong with deallocate(ptr, n) in storage st
Fault(st, ptr, n) ==
    IF ptr = Null THEN {"null"}
    ELSE IF st[ptr].kind = "none" THEN {"not_allocated"}
    ELSE IF st[ptr].kind = "vec" THEN {"vec_buffer"}
    ELSE IF st[ptr].kind = "region" THEN {"region"}
    ELSE IF st[ptr].n # n THEN {"size"}
    ELSE {}

\* Allocator::deallocate(ptr, n): the storage at ptr, if any, is released
deallocate(w, ptr, n) ==
    [w EXCEPT !.store = IF ptr \in DOMAIN @ THEN [@ EXCEPT ![ptr] = NoBlock] ELSE @,
              !.faults = @ \cup Fault(w.store, ptr, n),
              !.deallocs = Append(@, <<ptr, n>>)]

\* ---------------------------------------------------------- usize, isize
\* usize arithmetic without overflow checks wraps
usize(n) == n % (2 ^ UsizeBits)

\* `n as isize`
isize(n) == IF n >= 2 ^ (UsizeBits - 1) THEN n - 2 ^ UsizeBits ELSE n

\* `if !ptr.is_compact() { A::deallocate(ptr.mut_ptr(), cap) }`
deallocate_if_free(w, p, cap) == IF ~p.compact THEN deallocate(w, p.addr, cap) ELSE w

\* -------------------------------------------------- PointerToMaybeCompact
\* PointerToMaybeCompact::default(): no storage, free mode
PtrDefault == [compact |-> FALSE, addr |-> Null]
set_to_free(a) == [compact |-> FALSE, addr |-> a]
set_to_compact(a) == [compact |-> TRUE, addr |-> a]
new_free(a) == [compact |-> FALSE, addr |-> a]
is_compact(p) == p.compact

\* ---------------------------------------------------------------- CompactVec
CompactVec(p, len, cap) == [ptr |-> p, len |-> len, cap |-> cap]

NoVec == CompactVec(PtrDefault, 0, 0)
NoIter == [ptr |-> PtrDefault, len |-> 0, cap |-> 0, index |-> 0]

\* Deref: the slice of the len live elements
Elems(st, v) == [i \in 1..v.len |-> st[v.ptr.addr].slots[i]]

Unit == [kind |-> "unit", val |-> 0]
None == [kind |-> "none", val |-> 0]
Some(x) == [kind |-> "some", val |-> x]
Panic == [kind |-> "panic", val |-> 0]

\* ------------------------------------------------------------- constructors
\* CompactVec::new(): no allocation
new == CompactVec(PtrDefault, 0, 0)

\* CompactVec::with_capacity(cap): allocates cap slots
with_capacity(w, cap) ==
    [allocate(w, cap) EXCEPT !.vec = CompactVec(set_to_free(NewAddr(w.store)), 0, cap)]

\* From<Vec<T>>: the Vec's buffer (elements es, capacity cap) becomes the
\* free storage; the buffer is the Vec's, not Allocator::allocate's
from_vec(w, es, cap) ==
    [w EXCEPT !.vec = CompactVec(new_free(NewAddr(w.store)), Len(es), cap),
              !.store[NewAddr(w.store)] =
                  Block("vec", cap, [i \in 1..cap |-> IF i <= Len(es) THEN es[i] ELSE Uninit])]

\* ------------------------------------------------------------------- Compact
\* ptr::copy_nonoverlapping(src, dst, count): slots i..count of src to dst
RECURSIVE copy_nonoverlapping(_, _, _, _, _)
copy_nonoverlapping(st, src, dst, i, count) ==
    IF i >= count THEN st
    ELSE copy_nonoverlapping(Write(st, dst, i, Read(st, src, i)), src, dst, i + 1, count)

\* the destination given to compact_from: the address of the caller's region
\* it is at and its byte offset in that region
DynamicPart(a, at) == [addr |-> a, at |-> at]

\* Compact for CompactVec<T: Copy>
is_still_compact(v) == is_compact(v.ptr)

dynamic_size_bytes(T, v) == v.cap * size_of(T)

\* compact_from(&mut self, source, new_dynamic_part): self takes the source's
\* cap and len, points (compact) at the destination and receives the len
\* elements; the destination is storage of the caller's region
compact_from(w, source, new_dynamic_part) ==
    LET dest == new_dynamic_part.addr
        st1 == [w.store EXCEPT ![dest] = Block("region", source.cap, Blank(source.cap))]
        st2 == copy_nonoverlapping(st1, source.ptr.addr, dest, 0, source.len)
    IN  [w EXCEPT !.vec = CompactVec(set_to_compact(dest), source.len, source.cap),
                  !.store = st2,
                  !.copies = Append(@, [at |-> new_dynamic_part.at,
                                        n |-> source.len * size_of(w.T)])]

\* Compact for CompactVec<T> (default), T a CompactVec<u8>
is_still_compact_default(st, v) ==
    is_compact(v.ptr) /\ \A i \in 1..v.len : is_still_compact(st[v.ptr.addr].slots[i])

RECURSIVE SumDynamic(_, _, _)
\* self.iter().map(|elem| elem.dynamic_size_bytes()).sum() over the slots from i
SumDynamic(st, v, i) ==
    IF i >= v.len THEN 0
    ELSE dynamic_size_bytes("value", Read(st, v.ptr.addr, i)) + SumDynamic(st, v, i + 1)

dynamic_size_bytes_default(st, v) == v.cap * size_of("vec") + SumDynamic(st, v, 0)

\* offset += self[i].dynamic_size_bytes() that counts the len elements
Advance_by_len(w) == [w EXCEPT !.offset = @ + w.elem.len * size_of("value")]

\* offset += self[i].dynamic_size_bytes(), self[i] the element just materialised
Advance(w) == [w EXCEPT !.offset = @ + dynamic_size_bytes("value", w.elem)]

\* the loop of compact_from: for i in 0..len {
\*   self[i].compact_from(&source[i], new_dynamic_part.offset(offset));
\*   offset += self[i].dynamic_size_bytes() }
RECURSIVE CompactElems(_, _, _, _)
CompactElems(w, source, new_dynamic_part, i) ==
    IF i >= source.len THEN w
    ELSE CompactElems(
             Advance(WriteElem(
                 Returned(w, compact_from(ElemWorld(w), Read(w.store, source.ptr.addr, i),
                                          DynamicPart(NewAddr(w.store),
                                                      new_dynamic_part.at + w.offset))),
                 new_dynamic_part.addr, i)),
             source, new_dynamic_part, i + 1)

\* compact_from that copies the fixed array as it is
compact_from_raw(w, source, new_dynamic_part) ==
    [w EXCEPT !.vec = CompactVec(set_to_compact(new_dynamic_part.addr), source.len, source.cap),
              !.store[new_dynamic_part.addr] =
                  Block("region", source.cap,
                        [i \in 1..source.cap |->
                            IF i <= source.len THEN Read(w.store, source.ptr.addr, i - 1)
                            ELSE Uninit]),
              !.offset = source.cap * size_of(w.T)]

\* compact_from (default): self points at new_dynamic_part, with the len and
\* cap of source; the elements are materialised behind the cap slots
compact_from_default(w, source, new_dynamic_part) ==
    CompactElems(
        [w EXCEPT !.vec = CompactVec(set_to_compact(new_dynamic_part.addr),
                                     source.len, source.cap),
                  !.store[new_dynamic_part.addr] =
                      Block("region", source.cap, Blank(source.cap)),
                  !.offset = source.cap * size_of(w.T)],
        source, new_dynamic_part, 0)

\* --------------------------------------------------------------------- Clone
\* copy_nonoverlapping(self.ptr, new_vec.ptr, count); new_vec.len = self.len
clone_copy_fill(n, self, count) ==
    [n EXCEPT !.store = copy_nonoverlapping(n.store, self.ptr.addr, n.vec.ptr.addr, 0, count),
              !.vec.len = self.len,
              !.copies = Append(@, [at |-> 0, n |-> count * size_of(n.T)])]

\* clone that copies the whole capacity
clone_copy_cap(w, self) == clone_copy_fill(with_capacity(w, self.cap), self, self.cap)

\* Clone (Copy elements): with_capacity(self.cap), copy len elements, len = self.len
clone_copy(w, self) == clone_copy_fill(with_capacity(w, self.cap), self, self.len)

\* T::clone(&e): a plain value is copied, a CompactVec<u8> is cloned
ElemClone(w, e) ==
    IF w.T = "value" THEN [w EXCEPT !.elem = e]
    ELSE Returned(w, clone_copy(ElemWorld(w), e))

\* collect(): the element the iterator produced is added to the Vec
Collected(w) == [w EXCEPT !.acc = Append(@, w.elem)]

\* self.iter().cloned().collect::<Vec<_>>() from slot i on
RECURSIVE Cloned(_, _, _)
Cloned(w, self, i) ==
    IF i >= self.len THEN w
    ELSE Cloned(Collected(ElemClone(w, Read(w.store, self.ptr.addr, i))), self, i + 1)

\* Vec::into(): collect() of the slice iterator, whose length is exact,
\* reserved len slots
into(w) == from_vec(w, w.acc, Len(w.acc))

\* Clone (default): self.iter().cloned().collect::<Vec<_>>().into()
clone_default(w, self) == into(Cloned([w EXCEPT !.acc = <<>>], self, 0))

\* the Clone of CompactVec<T>: the Copy one for T = u8
clone(w, self) == IF w.T = "value" THEN clone_copy(w, self) ELSE clone_default(w, self)

\* ----------------------------------------------------------------- decompact
\* decompact that always takes the storage over
decompact_take_over(w, self) == [w EXCEPT !.vec = CompactVec(self.ptr, self.len, self.cap)]

\* decompact that always clones
decompact_clone(w, self) == clone(w, self)

\* Compact::decompact(&self): a clone of a compact container; of a free one
\* a second container with the same pointer, len and cap ("caller has to
\* make sure that self will not be dropped")
decompact(w, self) ==
    IF is_compact(self.ptr) THEN clone(w, self)
    ELSE [w EXCEPT !.vec = CompactVec(self.ptr, self.len, self.cap)]

\* T::decompact(&e): a plain value is returned as it is
ElemDecompact(w, e) ==
    IF w.T = "value" THEN [w EXCEPT !.elem = e]
    ELSE Returned(w, decompact(ElemWorld(w), e))

\* ptr::drop_in_place of one element: a CompactVec<u8> releases its free storage
ElemDrop(w, e) ==
    IF w.T = "value" THEN [w EXCEPT !.dropped = Append(@, e)]
    ELSE [deallocate_if_free(w, e.ptr, e.cap) EXCEPT !.dropped = Append(@, e)]

\* ------------------------------------------------------------------- growth
\* the loop of double_buf: for i in 0..len, write(new_ptr + i, self[i].decompact())
RECURSIVE CopyDecompact(_, _, _, _, _)
CopyDecompact(w, src, dst, i, len) ==
    IF i >= len THEN w
    ELSE CopyDecompact(WriteElem(ElemDecompact(w, Read(w.store, src, i)), dst, i),
                       src, dst, i + 1, len)

\* a capacity that grows by one
NewCap_plus_one(cap) == cap + 1

NewCap(cap) == IF cap = 0 THEN 1 ELSE cap * 2

\* double_buf that forgets the block it replaces
double_buf_leak(w) ==
    [CopyDecompact(allocate(w, NewCap(w.vec.cap)), w.vec.ptr.addr, NewAddr(w.store), 0,
                   w.vec.len)
        EXCEPT !.vec = CompactVec(set_to_free(NewAddr(w.store)), w.vec.len, NewCap(w.vec.cap))]

\* double_buf: new_ptr = allocate(new_cap), the elements are decompacted
\* into it, the old storage is released if free, self points at new_ptr
double_buf(w) ==
    [deallocate_if_free(
         CopyDecompact(allocate(w, NewCap(w.vec.cap)), w.vec.ptr.addr, NewAddr(w.store), 0,
                       w.vec.len),
         w.vec.ptr, w.vec.cap)
        EXCEPT !.vec = CompactVec(set_to_free(NewAddr(w.store)), w.vec.len, NewCap(w.vec.cap))]

\* `if self.len == self.cap { self.double_buf() }`
Grown(w) == IF w.vec.len = w.vec.cap THEN double_buf(w) ELSE w

\* ---------------------------------------------------------------- mutations
\* push that never grows
push_unchecked(w, value) ==
    [w EXCEPT !.store = Write(w.store, w.vec.ptr.addr, w.vec.len, value),
              !.vec.len = w.vec.len + 1]

\* ptr::write(end, value); self.len += 1
push_end(g, value) ==
    [g EXCEPT !.store = Write(g.store, g.vec.ptr.addr, g.vec.len, value),
              !.vec.len = g.vec.len + 1,
              !.ret = Unit]

push(w, value) == push_end(Grown(w), value)

\* pop that returns the first element
pop_front(w) ==
    IF w.vec.len = 0 THEN [w EXCEPT !.ret = None]
    ELSE [w EXCEPT !.vec.len = w.vec.len - 1,
                   !.ret = Some(Read(w.store, w.vec.ptr.addr, 0))]

pop(w) ==
    IF w.vec.len = 0 THEN [w EXCEPT !.ret = None]
    ELSE [w EXCEPT !.vec.len = w.vec.len - 1,
                   !.ret = Some(Read(w.store, w.vec.ptr.addr, w.vec.len - 1))]

\* the loop of insert running upward: for i in 0..len - index
RECURSIVE ShiftUp_forward_from(_, _, _, _, _)
ShiftUp_forward_from(w, a, index, i, last) ==
    IF i > last THEN w
    ELSE IF usize(index + i) >= w.vec.len THEN [w EXCEPT !.ret = Panic]
    ELSE ShiftUp_forward_from(
             WriteElem(ElemDecompact(w, Read(w.store, a, usize(index + i))),
                       a, index + isize(usize(i + 1))),
             a, index, i + 1, last)

ShiftUp_forward(w, a, index, i) == ShiftUp_forward_from(w, a, index, 0, i)

\* the loop of insert: for i in (0..len - index).rev(),
\* write(ptr + (i + 1) as isize, self[index + i].decompact()), ptr the slot
\* at index; i runs downward.  self[index + i] panics beyond the slice.
RECURSIVE ShiftUp(_, _, _, _)
ShiftUp(w, a, index, i) ==
    IF i < 0 THEN w
    ELSE IF usize(index + i) >= w.vec.len THEN [w EXCEPT !.ret = Panic]
    ELSE ShiftUp(WriteElem(ElemDecompact(w, Read(w.store, a, usize(index + i))),
                           a, index + isize(usize(i + 1))),
                 a, index, i - 1)

\* ptr::write(ptr, value); self.len += 1, unless the loop panicked
insert_end(s, index, value) ==
    IF s.ret = Panic THEN s
    ELSE [s EXCEPT !.store = Write(s.store, s.vec.ptr.addr, index, value),
                   !.vec.len = s.vec.len + 1,
                   !.ret = Unit]

\* insert after the growth: self.len - index panics under overflow checks
\* when index > len and wraps without them
insert_shift(g, index, value) ==
    IF index > g.vec.len /\ g.overflow_checks THEN [g EXCEPT !.ret = Panic]
    ELSE insert_end(ShiftUp(g, g.vec.ptr.addr, index, usize(g.vec.len - index) - 1),
                    index, value)

insert(w, index, value) == insert_shift(Grown(w), index, value)

\* the loop of remove: for i in 0..len - index - 1,
\* write(ptr + i, self[index + i + 1].decompact())
RECURSIVE ShiftDown(_, _, _, _, _)
ShiftDown(w, a, index, i, n) ==
    IF i >= n THEN w
    ELSE ShiftDown(WriteElem(ElemDecompact(w, Read(w.store, a, index + i + 1)), a, index + i),
                   a, index, i + 1, n)

\* remove that takes the last element when the index is beyond it
remove_clamped(w, index) ==
    LET v == w.vec
        len == v.len
        at == IF index < len THEN index ELSE len - 1
    IN  IF len = 0 THEN [w EXCEPT !.ret = Panic]
        ELSE [ShiftDown(w, v.ptr.addr, at, 0, len - at - 1)
                 EXCEPT !.vec.len = len - 1,
                        !.ret = Some(Read(w.store, v.ptr.addr, at))]

remove(w, index) ==
    LET v == w.vec
        len == v.len
    IN  IF ~(index < len) THEN [w EXCEPT !.ret = Panic]
        ELSE [ShiftDown(w, v.ptr.addr, index, 0, len - index - 1)
                 EXCEPT !.vec.len = len - 1,
                        !.ret = Some(Read(w.store, v.ptr.addr, index))]

\* truncate that destroys the elements from desired_len upward
RECURSIVE truncate_upward_from(_, _, _)
truncate_upward_from(w, desired_len, i) ==
    IF i < w.vec.len
    THEN truncate_upward_from(ElemDrop(w, Read(w.store, w.vec.ptr.addr, i)),
                              desired_len, i + 1)
    ELSE [w EXCEPT !.vec.len = IF desired_len < @ THEN desired_len ELSE @]

truncate_upward(w, desired_len) == truncate_upward_from(w, desired_len, desired_len)

\* truncate: while desired_len < len { len -= 1; drop_in_place(slot len) }
RECURSIVE truncate(_, _)
truncate(w, desired_len) ==
    IF desired_len < w.vec.len
    THEN truncate(ElemDrop([w EXCEPT !.vec.len = w.vec.len - 1],
                           Read(w.store, w.vec.ptr.addr, w.vec.len - 1)),
                  desired_len)
    ELSE w

\* clear that gives the storage back
clear_release(w) ==
    [deallocate_if_free(truncate(w, 0), w.vec.ptr, w.vec.cap) EXCEPT !.vec = new]

clear(w) == truncate(w, 0)

\* the predicates retain is called with
Preds == {"even", "all", "none"}
\* those on elements that are containers
VecPreds == {"nonempty", "all", "none"}
Keep(p, e) ==
    CASE p = "even" -> e % 2 = 0
      [] p = "nonempty" -> e.len > 0
      [] p = "all"  -> TRUE
      [] p = "none" -> FALSE

\* a move of slot j to slot i in place of the swap
Swap_overwrite(st, a, i, j) ==
    [st EXCEPT ![a].slots = [@ EXCEPT ![i + 1] = st[a].slots[j + 1]]]

\* v.swap(i, j) on the slice
Swap(st, a, i, j) ==
    [st EXCEPT ![a].slots = [@ EXCEPT ![i + 1] = st[a].slots[j + 1],
                                      ![j + 1] = st[a].slots[i + 1]]]

\* the loop of retain: the store and del after the pass over i..len
RECURSIVE RetainPass(_, _, _, _, _, _)
RetainPass(st, a, keep, i, del, len) ==
    IF i >= len THEN [store |-> st, del |-> del]
    ELSE IF ~Keep(keep, Read(st, a, i))
         THEN RetainPass(st, a, keep, i + 1, del + 1, len)
         ELSE RetainPass(Swap(st, a, i - del, i), a, keep, i + 1, del, len)

retain(w, keep) ==
    LET len == w.vec.len
        r == IF len = 0 THEN [store |-> w.store, del |-> 0]
             ELSE RetainPass(w.store, w.vec.ptr.addr, keep, 0, 0, len)
        w1 == [w EXCEPT !.store = r.store]
    IN  IF r.del > 0 THEN truncate(w1, len - r.del) ELSE w1

\* -------------------------------------------------------------- destruction
\* ptr::drop_in_place(&mut self[..]): the elements from slot i on, in order
RECURSIVE DropSlice(_, _, _)
DropSlice(w, v, i) ==
    IF i >= v.len THEN w
    ELSE DropSlice(ElemDrop(w, Read(w.store, v.ptr.addr, i)), v, i + 1)

\* Drop that releases the storage whatever its mode
drop_any_mode(w) == deallocate(DropSlice(w, w.vec, 0), w.vec.ptr.addr, w.vec.cap)

\* Drop for CompactVec: drop_in_place(&mut self[..]), then release free storage
drop(w) == deallocate_if_free(DropSlice(w, w.vec, 0), w.vec.ptr, w.vec.cap)

\* ---------------------------------------------------------- owning iterator
\* IntoIterator::into_iter: the fields move to the iterator, self is forgotten
into_iter(v) == [ptr |-> v.ptr, len |-> v.len, cap |-> v.cap, index |-> 0]

\* next that stops one element early
IntoIter_next_short(st, it) ==
    IF it.index + 1 < it.len
    THEN [iter |-> [it EXCEPT !.index = it.index + 1],
          ret |-> Some(Read(st, it.ptr.addr, it.index))]
    ELSE [iter |-> it, ret |-> None]

\* IntoIter::next: the iterator after the call and what the call returns
IntoIter_next(st, it) ==
    IF it.index < it.len
    THEN [iter |-> [it EXCEPT !.index = it.index + 1],
          ret |-> Some(Read(st, it.ptr.addr, it.index))]
    ELSE [iter |-> it, ret |-> None]

\* Drop for IntoIter.  drop_in_place is handed `&mut from_raw_parts(ptr + index, len)`,
\* a pointer to the slice REFERENCE (type &[T]), so it destroys no element;
\* the slice it forms spans the slots [index, index + len).
IntoIter_drop_span(it) == <<it.index, it.index + it.len>>

IntoIter_drop(w, it) == deallocate_if_free(w, it.ptr, it.cap)

\* ------------------------------------------------------------------ history
\* hist.ctor      the constructor of the container, until a pop removes an
\*                element or another mutation than push is called
\* hist.initCap   likewise: the capacity after construction
\* hist.stackOnly it was constructed empty and only push and pop were called
\* hist.pushOnly  ... and no pop removed an element
\* hist.shadow    while stackOnly: the pushed values not yet popped, oldest first
\* hist.net       while stackOnly: pushes minus successful pops
\* hist.growths   while pushOnly: blocks allocated by push since construction
\* hist.srcVec    the Vec given to From<Vec>, while the container is unmodified
\* hist.pristine  no mutating operation was called since construction
\* hist.yielded   the items the owning iterator returned, in order
Hist0 == [ctor |-> "none", initCap |-> 0, stackOnly |-> FALSE, pushOnly |-> FALSE,
          shadow |-> <<>>, net |-> 0, growths |-> 0, srcVec |-> <<>>,
          pristine |-> FALSE, yielded |-> <<>>]

Built(ctor, v, src) ==
    [Hist0 EXCEPT !.ctor = ctor, !.initCap = v.cap, !.stackOnly = (v.len = 0),
                  !.pushOnly = (v.len = 0), !.srcVec = src, !.pristine = TRUE]

\* a mutating operation other than push and pop was called
Mutated(h) == Hist0

Op(name, idx, val) == [name |-> name, idx |-> idx, val |-> val]
NoOp == Op("none", 0, 0)

\* pre.elems: the elements of the container, or of the buffer being iterated
\* pre.undo:  set by remove(i) called right after insert(i, v): the elements
\*            before that insert, and v
Snapshot == [vec |-> vec,
             elems |-> CASE pc = "live" -> Elems(store, vec)
                         [] pc = "iter" -> Elems(store, iter)
                         [] OTHER -> <<>>,
             shadow |-> hist.shadow, iter |-> iter, undo |-> <<>>]
NoSnapshot == [vec |-> NoVec, elems |-> <<>>, shadow |-> <<>>, iter |-> NoIter, undo |-> <<>>]

\* the world a method of the container starts in
W0 == World(vec, store)

\* The slots at and beyond len hold no element: no operation reads one before
\* writing it, and the model does not tell their stale contents apart.
Scrub(st, v) ==
    IF v.ptr.addr \in DOMAIN st /\ st[v.ptr.addr] # NoBlock
    THEN [st EXCEPT ![v.ptr.addr].slots =
              [i \in 1..Len(@) |-> IF i <= v.len THEN @[i] ELSE Uninit]]
    ELSE st

\* what an operation did, apart from the container itself
Outputs(w) ==
    /\ faults' = w.faults
    /\ allocs' = w.allocs
    /\ deallocs' = w.deallocs
    /\ dropped' = w.dropped
    /\ copies' = w.copies
    /\ ret' = w.ret

Effects(w) ==
    /\ Outputs(w)
    /\ pre' = Snapshot

\* a method took the world to w
Commit(w) ==
    /\ vec' = w.vec
    /\ store' = Scrub(w.store, w.vec)
    /\ Effects(w)

\* some container or iterator points at address a
Referenced(a) ==
    \/ pc = "live" /\ vec.ptr.addr = a
    \/ pc = "iter" /\ iter.ptr.addr = a
    \/ other.pc = "live" /\ other.vec.ptr.addr = a

\* The source of a clone / compact_from has gone out of scope and the owner of
\* a region has taken it back before the next operation is called.
Settled ==
    /\ other.pc # "live"
    /\ \A a \in Addrs : store[a].kind = "region" => Referenced(a)

\* a growth is within the bounds of the model
CanGrow == NewCap(vec.cap) <= MaxCap /\ HasFree(store)
Room == vec.len < vec.cap \/ CanGrow

Init ==
    /\ pc = "none"
    /\ vec = NoVec
    /\ iter = NoIter
    /\ other = [pc |-> "none", vec |-> NoVec]
    /\ store = [a \in Addrs |-> NoBlock]
    /\ faults = {}
    /\ lastOp = NoOp
    /\ pre = NoSnapshot
    /\ ret = Unit
    /\ dropped = <<>>
    /\ allocs = <<>>
    /\ deallocs = <<>>
    /\ copies = <<>>
    /\ hist = Hist0

\* ------------------------------------------------------------- constructors
Construct(name, arg, w, src) ==
    /\ pc' = "live"
    /\ Commit(w)
    /\ lastOp' = Op(name, arg, 0)
    /\ hist' = Built(name, w.vec, src)
    /\ UNCHANGED iter

New ==
    /\ pc = "none"
    /\ Construct("new", 0, [W0 EXCEPT !.vec = new], <<>>)
    /\ UNCHANGED other

WithCapacity ==
    /\ pc = "none"
    /\ \E cap \in 0..MaxCap : Construct("with_capacity", cap, with_capacity(W0, cap), <<>>)
    /\ UNCHANGED other

\* the owned buffers From<Vec> is given: len <= capacity
VecInputs == UNION {[1..n -> Values] : n \in 0..MaxCap}

FromVec ==
    /\ pc = "none"
    /\ \E es \in VecInputs : \E cap \in Len(es)..MaxCap :
           Construct("from_vec", cap, from_vec(W0, es, cap), es)
    /\ UNCHANGED other

\* the container is the source; the materialised container is
\* the container from now on
CompactFrom ==
    /\ pc = "live"
    /\ Settled
    /\ HasFree(store)
    /\ Construct("compact_from", vec.cap,
                 compact_from(W0, vec, DynamicPart(NewAddr(store), 0)), <<>>)
    /\ other' = [pc |-> "live", vec |-> vec]

CloneCopy ==
    /\ pc = "live"
    /\ Settled
    /\ HasFree(store)
    /\ Construct("clone", vec.cap, clone_copy(W0, vec), <<>>)
    /\ other' = [pc |-> "live", vec |-> vec]

CloneDefault ==
    /\ pc = "live"
    /\ Settled
    /\ HasFree(store)
    /\ Construct("clone_default", vec.len, clone_default(W0, vec), <<>>)
    /\ other' = [pc |-> "live", vec |-> vec]

\* ---------------------------------------------------------------- mutations
Push ==
    /\ pc = "live"
    /\ Settled
    /\ Room
    /\ \E value \in Values :
        LET w == push(W0, value)
        IN  /\ Commit(w)
            /\ lastOp' = Op("push", 0, value)
            /\ hist' = [hist EXCEPT
                  !.shadow = IF hist.stackOnly THEN Append(@, value) ELSE @,
                  !.net = IF hist.stackOnly THEN @ + 1 ELSE @,
                  !.growths = IF hist.pushOnly THEN @ + Len(w.allocs) ELSE @,
                  !.srcVec = <<>>, !.pristine = FALSE]
    /\ UNCHANGED <<pc, iter, other>>

Pop ==
    /\ pc = "live"
    /\ Settled
    /\ LET w == pop(W0)
           took == hist.stackOnly /\ w.ret.kind = "some"
       IN  /\ Commit(w)
           /\ lastOp' = Op("pop", 0, 0)
           /\ hist' = [hist EXCEPT
                 !.shadow = IF took THEN SubSeq(@, 1, Len(@) - 1) ELSE @,
                 !.net = IF took THEN @ - 1 ELSE @,
                 !.pushOnly = @ /\ w.ret.kind # "some",
                 !.ctor = IF w.ret.kind = "some" THEN "none" ELSE @,
                 !.initCap = IF w.ret.kind = "some" THEN 0 ELSE @,
                 !.growths = IF w.ret.kind = "some" THEN 0 ELSE @,
                 !.srcVec = <<>>, !.pristine = FALSE]
    /\ UNCHANGED <<pc, iter, other>>

\* every index > len takes the same path as index = len + 1
Insert ==
    /\ pc = "live"
    /\ Settled
    /\ Room
    /\ \E index \in 0..(vec.len + 1) : \E value \in Values : \E checks \in BOOLEAN :
        LET w == insert([W0 EXCEPT !.overflow_checks = checks], index, value)
        IN  /\ Commit(w)
            /\ lastOp' = Op("insert", index, value)
            /\ hist' = Mutated(hist)
    /\ UNCHANGED <<pc, iter, other>>

\* every index >= len takes the same path as index = len
Remove ==
    /\ pc = "live"
    /\ Settled
    /\ \E index \in 0..vec.len :
        LET w == remove(W0, index)
        IN  /\ vec' = w.vec
            /\ store' = Scrub(w.store, w.vec)
            /\ Outputs(w)
            /\ pre' = [Snapshot EXCEPT !.undo =
                          IF lastOp.name = "insert" /\ lastOp.idx = index
                          THEN <<[elems |-> pre.elems, val |-> lastOp.val]>> ELSE <<>>]
            /\ lastOp' = Op("remove", index, 0)
        /\ hist' = Mutated(hist)
    /\ UNCHANGED <<pc, iter, other>>

Retain ==
    /\ pc = "live"
    /\ Settled
    /\ \E keep \in Preds :
        /\ Commit(retain(W0, keep))
        /\ lastOp' = Op("retain", 0, keep)
        /\ hist' = Mutated(hist)
    /\ UNCHANGED <<pc, iter, other>>

\* every desired_len > len takes the same path as desired_len = len + 1
Truncate ==
    /\ pc = "live"
    /\ Settled
    /\ \E desired_len \in 0..(vec.len + 1) :
        /\ Commit(truncate(W0, desired_len))
        /\ lastOp' = Op("truncate", desired_len, 0)
        /\ hist' = Mutated(hist)
    /\ UNCHANGED <<pc, iter, other>>

Clear ==
    /\ pc = "live"
    /\ Settled
    /\ Commit(clear(W0))
    /\ lastOp' = Op("clear", 0, 0)
    /\ hist' = Mutated(hist)
    /\ UNCHANGED <<pc, iter, other>>

\* -------------------------------------------------------------- destruction
Drop ==
    /\ pc = "live"
    /\ Settled
    /\ LET w == drop(W0)
       IN  /\ store' = w.store
           /\ Effects(w)
    /\ pc' = "dropped"
    /\ vec' = NoVec
    /\ lastOp' = Op("drop", 0, 0)
    /\ UNCHANGED <<iter, other, hist>>

\* the source of a clone / compact_from goes out of scope
DropOther ==
    /\ other.pc = "live"
    /\ LET w == drop(World(other.vec, store))
       IN  /\ store' = w.store
           /\ Outputs(w)
    /\ other' = [pc |-> "dropped", vec |-> NoVec]
    /\ pre' = [Snapshot EXCEPT !.vec = other.vec, !.elems = Elems(store, other.vec)]
    /\ lastOp' = Op("drop_other", 0, 0)
    /\ UNCHANGED <<pc, vec, iter, hist>>

\* the owner of a region no pointer refers to any more takes it back
ReleaseRegion ==
    /\ \E a \in Addrs :
        /\ store[a].kind = "region"
        /\ ~Referenced(a)
        /\ store' = [store EXCEPT ![a] = NoBlock]
    /\ Effects(W0)
    /\ lastOp' = Op("release_region", 0, 0)
    /\ UNCHANGED <<pc, vec, iter, other, hist>>

\* ---------------------------------------------------------- owning iterator
IntoIter ==
    /\ pc = "live"
    /\ Settled
    /\ pc' = "iter"
    /\ iter' = into_iter(vec)
    /\ vec' = NoVec
    /\ Effects(W0)
    /\ lastOp' = Op("into_iter", 0, 0)
    /\ hist' = [hist EXCEPT !.yielded = <<>>]
    /\ UNCHANGED <<other, store>>

IterNext ==
    /\ pc = "iter"
    /\ Settled
    /\ LET r == IntoIter_next(store, iter)
       IN  /\ iter' = r.iter
           /\ Effects([W0 EXCEPT !.ret = r.ret])
           /\ hist' = [hist EXCEPT !.yielded =
                          IF r.ret.kind = "some" THEN Append(@, r.ret.val) ELSE @]
    /\ lastOp' = Op("next", 0, 0)
    /\ UNCHANGED <<pc, vec, other, store>>

IterDrop ==
    /\ pc = "iter"
    /\ Settled
    /\ LET w == IntoIter_drop(W0, iter)
       IN  /\ store' = w.store
           /\ Effects(w)
    /\ pc' = "dropped"
    /\ iter' = NoIter
    /\ lastOp' = Op("iter_drop", IntoIter_drop_span(iter)[1], IntoIter_drop_span(iter)[2])
    /\ UNCHANGED <<vec, other, hist>>

Next ==
    \/ New \/ WithCapacity \/ FromVec \/ CompactFrom \/ CloneCopy \/ CloneDefault
    \/ Push \/ Pop \/ Insert \/ Remove \/ Retain \/ Truncate \/ Clear
    \/ Drop \/ DropOther \/ ReleaseRegion \/ IntoIter \/ IterNext \/ IterDrop

Spec == Init /\ [][Next]_vars

\* ------------------------------------------------ a container of containers
\* The second specification.  vec is a CompactVec<CompactVec<u8>>: a slot of
\* its storage holds the fields [ptr, len, cap] of a CompactVec<u8>, whose own
\* storage is another block of the store.  ret holds the element a pop or a
\* remove returned until the caller drops it.

\* largest capacity of the container of containers
MaxOuterCap == 3
\* largest capacity of an element
MaxElemCap == 2

VecAddrs == 1..(2 * MaxBlocks)

\* the world a method of the container of containers starts in
WV == [World(vec, store) EXCEPT !.T = "vec"]

\* the elements the caller builds: capacity and pushed values
ElemInputs ==
    {[cap |-> c, vals |-> [i \in 1..(c - 1) |-> i]] : c \in 1..MaxElemCap}
        \cup {[cap |-> 1, vals |-> <<1>>]}

RECURSIVE PushAll(_, _, _)
PushAll(w, vals, i) == IF i > Len(vals) THEN w ELSE PushAll(push(w, vals[i]), vals, i + 1)

\* a CompactVec<u8> the caller builds in storage st: with_capacity, then pushes
MakeElem(st, in) == PushAll(with_capacity(World(new, st), in.cap), in.vals, 1)

\* the live elements that are compact: their decompact() allocates a clone
CompactLive == Cardinality({i \in 1..vec.len : is_compact(store[vec.ptr.addr].slots[i].ptr)})

\* n addresses are without storage
Spare(n) == Cardinality({a \in DOMAIN store : store[a] = NoBlock}) >= n

\* a container, one of its elements or the returned element points at a
VecReferenced(a) ==
    \/ /\ pc = "live"
       /\ \/ vec.ptr.addr = a
          \/ \E i \in 1..vec.len : store[vec.ptr.addr].slots[i].ptr.addr = a
    \/ /\ other.pc = "live"
       /\ \/ other.vec.ptr.addr = a
          \/ \E i \in 1..other.vec.len : store[other.vec.ptr.addr].slots[i].ptr.addr = a
    \/ ret.kind = "some" /\ ret.val.ptr.addr = a

\* The source of a compact_from / decompact has gone out of scope, the caller
\* has dropped the element it was returned, and the owner of the region has
\* taken back what no pointer refers to, before the next operation is called.
\* A panic unwinds: no operation follows it but the Drop of the container.
VecSettled ==
    /\ other.pc # "live"
    /\ ret.kind \notin {"some", "panic"}
    /\ \A a \in DOMAIN store : store[a].kind = "region" => VecReferenced(a)

\* the world a method of the container starts in, the caller having built
\* the element of world value
Given(value, checks) ==
    [World(vec, value.store) EXCEPT !.T = "vec", !.overflow_checks = checks,
                                    !.elem = value.vec]

\* the unwinding of a panic drops the value the call was given
Unwound(w, value) == IF w.ret = Panic THEN ElemDrop(w, value) ELSE w

\* push / insert of the element the caller built
PushElem(g) == push(g, g.elem)

InsertElem(g, index) == Unwound(insert(g, index, g.elem), g.elem)

\* the elements of a container of containers: the len, the cap and the
\* values of each
Nested(st, v) ==
    [i \in 1..v.len |-> [len |-> st[v.ptr.addr].slots[i].len,
                         cap |-> st[v.ptr.addr].slots[i].cap,
                         elems |-> Elems(st, st[v.ptr.addr].slots[i])]]

\* the source of a compact_from / decompact before the call: its fields, its
\* elements (elems) and what they hold (shadow)
SourceSnapshot ==
    [NoSnapshot EXCEPT !.vec = vec, !.elems = Elems(store, vec),
                       !.shadow = Nested(store, vec)]

\* a method took the world to w
Became(w) ==
    /\ vec' = w.vec
    /\ store' = Scrub(w.store, w.vec)
    /\ Outputs(w)

CommitVec(w) ==
    /\ Became(w)
    /\ pre' = NoSnapshot

VecInit ==
    /\ pc = "none"
    /\ vec = NoVec
    /\ iter = NoIter
    /\ other = [pc |-> "none", vec |-> NoVec]
    /\ store = [a \in VecAddrs |-> NoBlock]
    /\ faults = {}
    /\ lastOp = NoOp
    /\ pre = NoSnapshot
    /\ ret = Unit
    /\ dropped = <<>>
    /\ allocs = <<>>
    /\ deallocs = <<>>
    /\ copies = <<>>
    /\ hist = Hist0

WithCapacityVec ==
    /\ pc = "none"
    /\ \E cap \in 0..MaxOuterCap : /\ CommitVec(with_capacity(WV, cap))
                                /\ lastOp' = Op("with_capacity", cap, 0)
    /\ pc' = "live"
    /\ UNCHANGED <<iter, other, hist>>

PushVec ==
    /\ pc = "live"
    /\ VecSettled
    /\ vec.len < vec.cap \/ NewCap(vec.cap) <= MaxOuterCap
    /\ Spare(2 + CompactLive)
    /\ \E in \in ElemInputs : CommitVec(PushElem(Given(MakeElem(store, in), TRUE)))
    /\ lastOp' = Op("push", 0, 0)
    /\ UNCHANGED <<pc, iter, other, hist>>

PopVec ==
    /\ pc = "live"
    /\ VecSettled
    /\ CommitVec(pop(WV))
    /\ lastOp' = Op("pop", 0, 0)
    /\ UNCHANGED <<pc, iter, other, hist>>

\* every index > len takes the same path as index = len + 1; the value of a
\* call that panics is dropped by the unwinding
InsertVec ==
    /\ pc = "live"
    /\ VecSettled
    /\ vec.len < vec.cap \/ NewCap(vec.cap) <= MaxOuterCap
    /\ Spare(2 + CompactLive)
    /\ \E index \in 0..(vec.len + 1) : \E in \in ElemInputs : \E checks \in BOOLEAN :
        /\ CommitVec(InsertElem(Given(MakeElem(store, in), checks), index))
        /\ lastOp' = Op("insert", index, 0)
    /\ UNCHANGED <<pc, iter, other, hist>>

\* every index >= len takes the same path as index = len
RemoveVec ==
    /\ pc = "live"
    /\ VecSettled
    /\ Spare(CompactLive)
    /\ \E index \in 0..vec.len :
        /\ CommitVec(remove(WV, index))
        /\ lastOp' = Op("remove", index, 0)
    /\ UNCHANGED <<pc, iter, other, hist>>

RetainVec ==
    /\ pc = "live"
    /\ VecSettled
    /\ \E keep \in VecPreds :
        /\ CommitVec(retain(WV, keep))
        /\ lastOp' = Op("retain", 0, keep)
    /\ UNCHANGED <<pc, iter, other, hist>>

TruncateVec ==
    /\ pc = "live"
    /\ VecSettled
    /\ \E desired_len \in 0..vec.len :
        /\ CommitVec(truncate(WV, desired_len))
        /\ lastOp' = Op("truncate", desired_len, 0)
    /\ UNCHANGED <<pc, iter, other, hist>>

DropVec ==
    /\ pc = "live"
    /\ VecSettled \/ ret.kind = "panic"
    /\ LET w == drop(WV)
       IN  /\ store' = w.store
           /\ Outputs(w)
    /\ pc' = "dropped"
    /\ vec' = NoVec
    /\ pre' = NoSnapshot
    /\ lastOp' = Op("drop", 0, 0)
    /\ UNCHANGED <<iter, other, hist>>

\* the caller drops the element a pop or a remove returned
DropReturned ==
    /\ ret.kind = "some"
    /\ LET w == ElemDrop(WV, ret.val)
       IN  /\ store' = w.store
           /\ Outputs([w EXCEPT !.ret = Unit])
    /\ pre' = NoSnapshot
    /\ lastOp' = Op("drop_returned", 0, 0)
    /\ UNCHANGED <<pc, vec, iter, other, hist>>

\* the container is the source; the materialised container is the container
\* from now on.  lastOp.val is the offset the loop of compact_from reached.
CompactFromVec ==
    /\ pc = "live"
    /\ VecSettled
    /\ Spare(1 + vec.len)
    /\ LET w == compact_from_default(WV, vec, DynamicPart(NewAddr(store), 0))
       IN  /\ Became(w)
           /\ lastOp' = Op("compact_from", vec.cap, w.offset)
    /\ pre' = SourceSnapshot
    /\ other' = [pc |-> "live", vec |-> vec]
    /\ UNCHANGED <<pc, iter, hist>>

\* decompact(): the result is the container from now on, pre.vec the source.
\* The source of a clone stays behind (other); the source whose storage the
\* result took over is forgotten by the caller, who "has to make sure that
\* self will not be dropped".
DecompactVec ==
    /\ pc = "live"
    /\ VecSettled
    /\ Spare(1 + vec.len)
    /\ Became(decompact(WV, vec))
    /\ pre' = SourceSnapshot
    /\ lastOp' = Op("decompact", 0, 0)
    /\ other' = IF is_compact(vec.ptr) THEN [pc |-> "live", vec |-> vec] ELSE other
    /\ UNCHANGED <<pc, iter, hist>>

\* the source of a compact_from / decompact goes out of scope
DropSource ==
    /\ other.pc = "live"
    /\ LET w == drop([World(other.vec, store) EXCEPT !.T = "vec"])
       IN  /\ store' = w.store
           /\ Outputs(w)
    /\ other' = [pc |-> "dropped", vec |-> NoVec]
    /\ pre' = NoSnapshot
    /\ lastOp' = Op("drop_source", 0, 0)
    /\ UNCHANGED <<pc, vec, iter, hist>>

\* the owner of the region takes back the storage no pointer refers to
ReleaseRegions ==
    /\ \E a \in DOMAIN store : store[a].kind = "region" /\ ~VecReferenced(a)
    /\ store' = [a \in DOMAIN store |->
                    IF store[a].kind = "region" /\ ~VecReferenced(a) THEN NoBlock
                    ELSE store[a]]
    /\ Outputs(WV)
    /\ pre' = NoSnapshot
    /\ lastOp' = Op("release_region", 0, 0)
    /\ UNCHANGED <<pc, vec, iter, other, hist>>

VecNext ==
    \/ New \/ WithCapacityVec \/ PushVec \/ PopVec \/ InsertVec \/ RemoveVec
    \/ RetainVec \/ TruncateVec \/ DropVec \/ DropReturned
    \/ CompactFromVec \/ DecompactVec \/ DropSource \/ ReleaseRegions

VecSpec == VecInit /\ [][VecNext]_vars

\* ------------------------------------------------------------------ claims
\* the operations that mutate a live container
Mutations == {"push", "pop", "insert", "remove", "retain", "truncate", "clear"}

\* the holders of free storage at address a
Holders(a) ==
    {h \in {"vec", "iter", "other"} :
        \/ h = "vec" /\ pc = "live" /\ ~vec.ptr.compact /\ vec.ptr.addr = a
        \/ h = "iter" /\ pc = "iter" /\ ~iter.ptr.compact /\ iter.ptr.addr = a
        \/ h = "other" /\ other.pc = "live" /\ ~other.vec.ptr.compact /\ other.vec.ptr.addr = a}

\* es in a buffer of cap slots
Pad(es, cap) == [i \in 1..cap |-> IF i <= Len(es) THEN es[i] ELSE Uninit]

\* C1: every block obtained from Allocator::allocate is passed to
\* Allocator::deallocate exactly once.  No deallocate is given a block that
\* is not allocated (any more); every allocated block has exactly one holder,
\* which will release it; and once the container (through its own Drop or its
\* iterator's) and the source of a clone are gone, no block is left.
AllocatedBlocksFreedOnce ==
    /\ "not_allocated" \notin faults
    /\ \A a \in Addrs : store[a].kind = "heap" => Cardinality(Holders(a)) = 1
    /\ (pc = "dropped" /\ other.pc # "live") => \A a \in Addrs : store[a].kind # "heap"

\* C1 witness: a container built by with_capacity grew by pushes, and was
\* dropped, which released its last block
GrownThenDropped ==
    /\ pc = "dropped"
    /\ lastOp.name = "drop"
    /\ hist.ctor = "with_capacity" /\ hist.growths >= 1
    /\ Len(deallocs) = 1 /\ faults = {}

\* C2: storage held through a compact pointer is never passed to
\* Allocator::deallocate.  A growth that spills a compact container, the Drop
\* of a compact container and the Drop of its iterator deallocate nothing and
\* leave the region as it was.
CompactNeverDeallocated ==
    /\ "region" \notin faults
    /\ (lastOp.name \in {"push", "insert", "drop", "drop_other"} /\ pre.vec.ptr.compact)
          => /\ deallocs = <<>>
             /\ (pc = "dropped" \/ lastOp.name = "drop_other" \/ ~vec.ptr.compact)
                   => store[pre.vec.ptr.addr] =
                         Block("region", pre.vec.cap, Pad(pre.elems, pre.vec.cap))
    /\ (lastOp.name = "iter_drop" /\ pre.iter.ptr.compact)
          => /\ deallocs = <<>>
             /\ store[pre.iter.ptr.addr].kind = "region"

\* C2 witness: a push on a full compact container spilled it to free storage
CompactSpilled ==
    /\ pc = "live"
    /\ lastOp.name = "push"
    /\ pre.vec.ptr.compact /\ pre.vec.len = pre.vec.cap /\ pre.vec.len >= 1
    /\ ~vec.ptr.compact

\* C3: len <= cap in every state of a container (and of the source of a
\* clone, and of the iterator a container was moved into)
LenAtMostCap ==
    /\ pc = "live" => vec.len <= vec.cap
    /\ pc = "iter" => iter.len <= iter.cap
    /\ other.pc = "live" => other.vec.len <= other.vec.cap

\* C3 witness: an insert into a full container, which therefore grew
InsertedIntoFull ==
    /\ pc = "live"
    /\ lastOp.name = "insert"
    /\ pre.vec.len = pre.vec.cap /\ pre.vec.len >= 1
    /\ vec.len = pre.vec.len + 1

\* C4: from an empty container, under push and pop alone, len is the number
\* of pushes minus the number of successful pops and the elements are the
\* pushed values not yet popped; a pop returns the most recent of them, and
\* on an empty container returns nothing and changes nothing.
StackDiscipline ==
    /\ (pc = "live" /\ hist.stackOnly)
          => /\ vec.len = hist.net
             /\ Elems(store, vec) = hist.shadow
    /\ (pc = "live" /\ hist.stackOnly /\ lastOp.name = "pop")
          => IF pre.shadow = <<>>
             THEN /\ ret = None
                  /\ vec = pre.vec
                  /\ Elems(store, vec) = pre.elems
             ELSE /\ ret = Some(pre.shadow[Len(pre.shadow)])
                  /\ hist.shadow = SubSeq(pre.shadow, 1, Len(pre.shadow) - 1)

\* C4 witness: a pop took the later of two different pushed values
PoppedLastPushed ==
    /\ pc = "live" /\ hist.stackOnly
    /\ lastOp.name = "pop"
    /\ Len(pre.shadow) >= 2
    /\ pre.shadow[Len(pre.shadow)] # pre.shadow[Len(pre.shadow) - 1]
    /\ ret.kind = "some"

\* s with v put at index i (counted from 0)
InsertAt(es, i, v) ==
    [k \in 1..(Len(es) + 1) |-> IF k <= i THEN es[k] ELSE IF k = i + 1 THEN v ELSE es[k - 1]]

\* C5: the capacity changes, and storage is allocated, only by a push or an
\* insert called with len = cap; such a call allocates one block of capacity 1
\* (from 0) or twice the old one, leaves the container in free mode and, when
\* it returns, with the elements it had, in order, and the new one (an insert
\* beyond len does not return: C15); with_capacity(2) and three
\* pushes grow once, to capacity 4, the three values in push order.
GrowthDoubles ==
    /\ (pc = "live" /\ lastOp.name \in Mutations /\ (vec.cap # pre.vec.cap \/ allocs # <<>>))
          => /\ lastOp.name \in {"push", "insert"}
             /\ pre.vec.len = pre.vec.cap
    /\ (pc = "live" /\ lastOp.name \in {"push", "insert"} /\ pre.vec.len = pre.vec.cap)
          => /\ vec.cap = IF pre.vec.cap = 0 THEN 1 ELSE 2 * pre.vec.cap
             /\ allocs = <<<<vec.ptr.addr, vec.cap>>>>
             /\ ~vec.ptr.compact
             /\ store[vec.ptr.addr].kind = "heap"
             /\ ret = Unit =>
                   Elems(store, vec) =
                      InsertAt(pre.elems,
                               IF lastOp.name = "push" THEN pre.vec.len ELSE lastOp.idx,
                               lastOp.val)
    /\ (pc = "live" /\ hist.pushOnly /\ hist.ctor = "with_capacity" /\ hist.initCap = 2
           /\ Len(hist.shadow) = 3)
          => /\ hist.growths = 1
             /\ vec.cap = 4
             /\ Elems(store, vec) = hist.shadow

\* C5 witness: the third push after with_capacity(2)
ThirdPushAfterCapacityTwo ==
    /\ pc = "live"
    /\ hist.pushOnly /\ hist.ctor = "with_capacity" /\ hist.initCap = 2
    /\ Len(hist.shadow) = 3
    /\ lastOp.name = "push"
    /\ pre.vec.len = pre.vec.cap

\* C6: insert(i, v) with i <= len puts v at index i, keeps the elements before
\* i and moves the others up by one; remove(i) right after it returns v and
\* gives back the elements and the len there were before the insert.
InsertThenRemove ==
    /\ (pc = "live" /\ lastOp.name = "insert" /\ lastOp.idx <= pre.vec.len)
          => /\ Elems(store, vec) = InsertAt(pre.elems, lastOp.idx, lastOp.val)
             /\ vec.len = pre.vec.len + 1
    /\ (pc = "live" /\ lastOp.name = "remove" /\ pre.undo # <<>>)
          => /\ ret = Some(pre.undo[1].val)
             /\ Elems(store, vec) = pre.undo[1].elems
             /\ vec.len = Len(pre.undo[1].elems)

\* C6 witness: remove(1) undid an insert(1, v) between two elements unlike v
InsertUndone ==
    /\ pc = "live"
    /\ lastOp.name = "remove" /\ lastOp.idx = 1
    /\ pre.undo # <<>>
    /\ Len(pre.undo[1].elems) >= 3
    /\ pre.undo[1].elems[2] # pre.undo[1].val
    /\ pre.undo[1].elems[2] # pre.undo[1].elems[3]

\* the number of times x occurs in es
Count(es, x) == Cardinality({i \in 1..Len(es) : es[i] = x})

Kept(es, p) == SelectSeq(es, LAMBDA e : Keep(p, e))

\* C7: retain leaves the elements that satisfy the predicate, in their
\* order, len their number; it destroys each of the others once and no
\* element it keeps.
RetainKeepsSubsequence ==
    (pc = "live" /\ lastOp.name = "retain")
       => /\ Elems(store, vec) = Kept(pre.elems, lastOp.val)
          /\ vec.len = Len(Kept(pre.elems, lastOp.val))
          /\ \A x \in Values :
                Count(dropped, x) = IF Keep(lastOp.val, x) THEN 0 ELSE Count(pre.elems, x)
          /\ Len(dropped) = pre.vec.len - vec.len

\* C7 witness: retain of the even values on <<1, 2, 1, 2>>
RetainedEven ==
    /\ pc = "live"
    /\ lastOp.name = "retain" /\ lastOp.val = "even"
    /\ pre.elems = <<1, 2, 1, 2>>
    /\ vec.len = 2

Reverse(es) == [i \in 1..Len(es) |-> es[Len(es) + 1 - i]]

\* what truncate(n) is to do to the container before it
Truncated(n) ==
    IF n >= pre.vec.len
    THEN /\ vec = pre.vec
         /\ Elems(store, vec) = pre.elems
         /\ dropped = <<>>
    ELSE /\ vec = [pre.vec EXCEPT !.len = n]
         /\ Elems(store, vec) = SubSeq(pre.elems, 1, n)
         /\ dropped = Reverse(SubSeq(pre.elems, n + 1, pre.vec.len))

\* C8: truncate(n) with n >= len changes nothing; with n < len it destroys
\* the elements at [n, len), the last one first, each once, sets len = n and
\* keeps the elements at [0, n); clear() does what truncate(0) does.
TruncateDropsTail ==
    /\ (pc = "live" /\ lastOp.name = "truncate") => Truncated(lastOp.idx)
    /\ (pc = "live" /\ lastOp.name = "clear") => Truncated(0) /\ vec.len = 0

\* C8 witness: truncate(1) of three elements, the last two different
TruncatedToOne ==
    /\ pc = "live"
    /\ lastOp.name = "truncate" /\ lastOp.idx = 1
    /\ pre.vec.len = 3
    /\ pre.elems[2] # pre.elems[3]

\* C9: a container made from a Vec adopts its buffer (no allocation, free
\* mode, the Vec's elements and capacity); consumed at once by the owning
\* iterator it yields the Vec's elements in index order, each once, then None.
VecRoundTrip ==
    /\ (pc = "live" /\ lastOp.name = "from_vec")
          => /\ allocs = <<>>
             /\ ~vec.ptr.compact
             /\ store[vec.ptr.addr].kind = "vec"
             /\ Elems(store, vec) = hist.srcVec
             /\ vec.cap = lastOp.idx
    /\ (pc = "iter" /\ hist.ctor = "from_vec" /\ hist.pristine)
          => /\ iter.len = Len(hist.srcVec)
             /\ iter.index <= iter.len
             /\ hist.yielded = SubSeq(hist.srcVec, 1, iter.index)
             /\ lastOp.name = "next"
                   => ret = IF pre.iter.index < Len(hist.srcVec)
                            THEN Some(hist.srcVec[pre.iter.index + 1]) ELSE None

\* C9 witness: the iterator over a Vec of three elements is exhausted and
\* asked once more
VecConsumed ==
    /\ pc = "iter" /\ hist.ctor = "from_vec" /\ hist.pristine
    /\ Len(hist.srcVec) = 3 /\ hist.srcVec[1] # hist.srcVec[2]
    /\ hist.yielded = hist.srcVec
    /\ lastOp.name = "next" /\ ret = None

\* C10: the Drop of an owning iterator that yielded k of len elements destroys
\* the elements at [k, len), each once, touches no slot at or beyond len, and
\* releases free storage once; into_iter itself releases nothing.
IterDropDestroysRest ==
    /\ lastOp.name = "iter_drop"
          => /\ dropped = SubSeq(pre.elems, pre.iter.index + 1, pre.iter.len)
             /\ lastOp.val <= pre.iter.len
             /\ deallocs = IF pre.iter.ptr.compact THEN <<>>
                           ELSE <<<<pre.iter.ptr.addr, pre.iter.cap>>>>
    /\ lastOp.name = "into_iter" => deallocs = <<>> /\ dropped = <<>>

\* C11: after compact_from(source, dest), dest another address than the
\* source's storage, the materialised container is compact and points at
\* dest, has the len and the cap of the source, is_still_compact() is true
\* (every element is compact too, in the region), every element reads back
\* with the len, cap and values of the source's, and the source is unchanged.
CompactFromMaterialises ==
    lastOp.name = "compact_from"
       => /\ is_compact(vec.ptr)
          /\ vec.ptr.addr # pre.vec.ptr.addr
          /\ store[vec.ptr.addr].kind = "region"
          /\ vec.len = pre.vec.len /\ vec.cap = pre.vec.cap
          /\ is_still_compact_default(store, vec)
          /\ \A i \in 1..vec.len :
                /\ store[Elems(store, vec)[i].ptr.addr].kind = "region"
                /\ Elems(store, vec)[i].ptr.addr # pre.elems[i].ptr.addr
          /\ Nested(store, vec) = pre.shadow
          /\ other = [pc |-> "live", vec |-> pre.vec]
          /\ Elems(store, pre.vec) = pre.elems
          /\ Nested(store, pre.vec) = pre.shadow

\* C11 witness: a container of two elements in free storage, the first
\* holding a value, was materialised
CompactedTwoElements ==
    /\ lastOp.name = "compact_from"
    /\ vec.len = 2
    /\ ~is_compact(pre.elems[1].ptr) /\ ~is_compact(pre.elems[2].ptr)
    /\ pre.shadow[1].elems # <<>>
    /\ pre.shadow[1] # pre.shadow[2]

\* C12: remove(index) with index >= len aborts before any element is read or
\* moved: it returns no value, and len, cap, the pointer and the elements are
\* as before; nothing is destroyed, allocated or released.
RemoveBeyondLenAborts ==
    (lastOp.name = "remove" /\ lastOp.idx >= pre.vec.len)
       => /\ ret = Panic
          /\ vec = pre.vec
          /\ Elems(store, vec) = pre.elems
          /\ dropped = <<>> /\ allocs = <<>> /\ deallocs = <<>>

\* C12 witness: remove(len) was called on a container of two or more elements
RemovedAtLen ==
    /\ lastOp.name = "remove"
    /\ pre.vec.len >= 2
    /\ lastOp.idx = pre.vec.len
    /\ ret = Panic

\* C13: every call Allocator::deallocate(ptr, n) of the container or of its
\* iterator passes a pointer that an earlier Allocator::allocate returned for
\* the same n and that was not released since -- also for a container made
\* by new(), by with_capacity(0) or from a Vec, and after growths.
DeallocateOnlyAllocated == faults = {}

\* the dynamic_size_bytes() of the elements es[1..n], summed
RECURSIVE DynamicBefore(_, _)
DynamicBefore(es, n) ==
    IF n = 0 THEN 0 ELSE DynamicBefore(es, n - 1) + dynamic_size_bytes("value", es[n])

\* C14: compact_from of a container of containers places the dynamic part of
\* element i at byte offset cap * size_of(T) + the sum of dynamic_size_bytes()
\* of the elements before it: the parts follow the fixed array in index order
\* without overlap, the offset reached after the last element is the
\* source's dynamic_size_bytes(), and no byte at or beyond it is written.
CompactFromOffsets ==
    lastOp.name = "compact_from"
       => /\ Len(copies) = pre.vec.len
          /\ \A i \in 1..pre.vec.len :
                /\ copies[i].at = pre.vec.cap * size_of("vec") + DynamicBefore(pre.elems, i - 1)
                /\ copies[i].n = pre.elems[i].len * size_of("value")
                /\ copies[i].at >= pre.vec.cap * size_of("vec")
                /\ copies[i].at + copies[i].n
                      <= copies[i].at + dynamic_size_bytes("value", pre.elems[i])
                /\ i < pre.vec.len
                      => copies[i].at + dynamic_size_bytes("value", pre.elems[i])
                            = copies[i + 1].at
                /\ copies[i].at + copies[i].n <= dynamic_size_bytes_default(store, pre.vec)
          /\ lastOp.val = dynamic_size_bytes_default(store, pre.vec)
          /\ lastOp.val = pre.vec.cap * size_of("vec") + DynamicBefore(pre.elems, pre.vec.len)

\* C14 witness: the first of two elements has unused capacity, which its
\* dynamic part spans: the second part starts beyond the bytes copied
CompactedWithSpareCapacity ==
    /\ lastOp.name = "compact_from"
    /\ pre.vec.len = 2
    /\ pre.elems[1].len >= 1 /\ pre.elems[1].cap > pre.elems[1].len
    /\ Len(copies) = 2
    /\ copies[2].at > copies[1].at + copies[1].n

\* C15: insert(index, v) with index > len aborts: it touches no slot outside
\* [0, cap) of the storage and leaves len and the elements as they were.
InsertBeyondLenAborts ==
    (lastOp.name = "insert" /\ lastOp.idx > pre.vec.len)
       => /\ ret = Panic
          /\ vec.len = pre.vec.len
          /\ vec.len <= Len(store[vec.ptr.addr].slots)
          /\ Elems(store, vec) = pre.elems

\* C16: decompact() of a container whose pointer is compact returns a
\* container in free mode with the same len and element values, in freshly
\* allocated storage that is independent of the source's region -- no
\* element of the result points into a region either -- and the source is
\* unchanged.
DecompactOfCompactCopies ==
    (lastOp.name = "decompact" /\ is_compact(pre.vec.ptr))
       => /\ ~is_compact(vec.ptr)
          /\ vec.len = pre.vec.len
          /\ vec.ptr.addr # pre.vec.ptr.addr
          /\ vec.len > 0 => store[vec.ptr.addr].kind \in {"heap", "vec"}
          /\ \A i \in 1..vec.len :
                /\ ~is_compact(Elems(store, vec)[i].ptr)
                /\ store[Elems(store, vec)[i].ptr.addr].kind = "heap"
                /\ \A j \in 1..vec.len :
                      Elems(store, vec)[i].ptr.addr # pre.elems[j].ptr.addr
                /\ Nested(store, vec)[i].len = pre.shadow[i].len
                /\ Nested(store, vec)[i].elems = pre.shadow[i].elems
          /\ other = [pc |-> "live", vec |-> pre.vec]
          /\ Elems(store, pre.vec) = pre.elems
          /\ Nested(store, pre.vec) = pre.shadow

\* C16 witness: a compact container of two compact elements, the first
\* holding a value, was decompacted
DecompactedCompact ==
    /\ lastOp.name = "decompact"
    /\ is_compact(pre.vec.ptr)
    /\ pre.vec.len = 2
    /\ is_compact(pre.elems[1].ptr) /\ is_compact(pre.elems[2].ptr)
    /\ pre.shadow[1].elems # <<>>
    /\ ~is_compact(vec.ptr)

\* the container and each of its elements hold free storage
FullyOwned(ptr, elems) ==
    ~is_compact(ptr) /\ \A i \in 1..Len(elems) : ~is_compact(elems[i].ptr)

\* C17, as stated: decompact() of a container that is fully self-owned
\* returns a separate self-owned copy; only a container that is not fully
\* self-owned has its storage taken over by the result without copying.
DecompactCopiesSelfOwned ==
    lastOp.name = "decompact"
       => /\ FullyOwned(pre.vec.ptr, pre.elems)
                => /\ pre.vec.cap > 0 => vec.ptr.addr # pre.vec.ptr.addr
                   /\ FullyOwned(vec.ptr, Elems(store, vec))
                   /\ Nested(store, vec) = pre.shadow
          /\ (pre.vec.cap > 0 /\ vec.ptr = pre.vec.ptr)
                => ~FullyOwned(pre.vec.ptr, pre.elems)

\* C17, amended: decompact() of a container whose pointer is free returns a
\* container with the same pointer, len and cap: the storage and the
\* elements in it are taken over as they are, nothing is allocated or
\* copied, and the source, which the caller must not drop, is no holder any
\* more.  Only a container whose pointer is compact is copied: the result
\* then is in free mode, in storage allocated by the call.
DecompactTakesOverFree ==
    lastOp.name = "decompact"
       => /\ ~is_compact(pre.vec.ptr)
                => /\ vec = pre.vec
                   /\ Elems(store, vec) = pre.elems
                   /\ Nested(store, vec) = pre.shadow
                   /\ allocs = <<>> /\ deallocs = <<>> /\ copies = <<>>
                   /\ other.pc # "live"
          /\ is_compact(pre.vec.ptr)
                => /\ ~is_compact(vec.ptr)
                   /\ vec.ptr.addr # pre.vec.ptr.addr
                   /\ Len(allocs) = vec.len
                   /\ Nested(store, vec) = pre.shadow

\* C17 witness: a container in free mode whose two elements are in free
\* mode, the first holding a value, was decompacted
DecompactedFree ==
    /\ lastOp.name = "decompact"
    /\ FullyOwned(pre.vec.ptr, pre.elems)
    /\ pre.vec.len = 2
    /\ pre.shadow[1].elems # <<>>
    /\ vec = pre.vec

\* C18: clone() of a container in either mode returns a container in free
\* mode with the same len and the same elements at [0, len), in storage of
\* its own, and leaves the source unchanged; the clone of Copy elements
\* makes exactly one allocation and copies exactly len elements, not the
\* capacity beyond len.
CloneIsFreeCopy ==
    lastOp.name \in {"clone", "clone_default"}
       => /\ ~is_compact(vec.ptr)
          /\ vec.len = pre.vec.len
          /\ Elems(store, vec) = pre.elems
          /\ vec.ptr.addr # pre.vec.ptr.addr
          /\ store[vec.ptr.addr].kind \in {"heap", "vec"}
          /\ other = [pc |-> "live", vec |-> pre.vec]
          /\ Elems(store, pre.vec) = pre.elems
          /\ lastOp.name = "clone"
                => /\ allocs = <<<<vec.ptr.addr, pre.vec.cap>>>>
                   /\ copies = <<[at |-> 0, n |-> pre.vec.len * size_of("value")]>>

\* C18 witness: a compact container of two different elements with unused
\* capacity was cloned by the Clone of Copy elements
ClonedCompactWithSpareCapacity ==
    /\ lastOp.name = "clone"
    /\ is_compact(pre.vec.ptr)
    /\ pre.vec.len = 2 /\ pre.vec.cap > 2
    /\ pre.elems[1] # pre.elems[2]
    /\ ~is_compact(vec.ptr)

\* C19: pop, remove, truncate, clear and retain neither allocate nor release
\* the storage of the container and leave cap and the pointer (its address
\* and its mode) as they are; push and insert change the mode only from
\* compact to free, and only when they grow; a container in free mode stays
\* in free mode under every mutation; and a container comes to be in compact
\* mode by compact_from only.
MutationsKeepMode ==
    [][ /\ lastOp'.name \in {"pop", "remove", "truncate", "clear", "retain"}
              => /\ allocs' = <<>> /\ deallocs' = <<>>
                 /\ vec'.cap = vec.cap
                 /\ vec'.ptr = vec.ptr
        /\ (lastOp'.name \in {"push", "insert"} /\ is_compact(vec'.ptr) # is_compact(vec.ptr))
              => /\ is_compact(vec.ptr) /\ ~is_compact(vec'.ptr)
                 /\ vec.len = vec.cap
                 /\ vec'.cap = NewCap(vec.cap)
                 /\ Len(allocs') = 1 /\ deallocs' = <<>>
        /\ (lastOp'.name \in Mutations /\ ~is_still_compact(vec))
              => ~is_still_compact(vec')
        /\ (pc' = "live" /\ is_compact(vec'.ptr) /\ ~(pc = "live" /\ is_compact(vec.ptr)))
              => lastOp'.name = "compact_from"
      ]_vars

\* C19 witness: clear was called on a compact container of two elements,
\* which is compact still, with the capacity it had
ClearedCompact ==
    /\ lastOp.name = "clear"
    /\ is_compact(pre.vec.ptr) /\ pre.vec.len = 2
    /\ vec.len = 0 /\ vec.ptr = pre.vec.ptr /\ vec.cap = pre.vec.cap

\* C20: in a container of containers, after any sequence of push, insert,
\* remove, pop, retain, truncate and growth, no two live slots hold the same
\* free storage, the storage of a live slot or of the element that pop or
\* remove returned has not been released, and no storage is released twice:
\* the take-over that decompact performs on the elements in free mode during
\* shifts and growth leaves every owned block with exactly one holder.
NestedStorageHasOneHolder ==
    /\ "not_allocated" \notin faults
    /\ pc = "live"
          => /\ \A i, j \in 1..vec.len :
                   (/\ i # j
                    /\ ~is_compact(Elems(store, vec)[i].ptr)
                    /\ ~is_compact(Elems(store, vec)[j].ptr))
                      => Elems(store, vec)[i].ptr.addr # Elems(store, vec)[j].ptr.addr
             /\ \A i \in 1..vec.len :
                   ~is_compact(Elems(store, vec)[i].ptr)
                      => store[Elems(store, vec)[i].ptr.addr].kind = "heap"
             /\ (ret.kind = "some" /\ ~is_compact(ret.val.ptr))
                   => /\ store[ret.val.ptr.addr].kind = "heap"
                      /\ \A i \in 1..vec.len :
                            Elems(store, vec)[i].ptr.addr # ret.val.ptr.addr

====
